---- MODULE Spec2Model ----
(***************************************************************************)
(* Capture session of the Plant Scanner front end (public/script.js):      *)
(* the in-memory session (imageCounter, capturedImages, currentDraft,      *)
(* isProcessingFile), the IndexedDB 'session' and 'settings' stores, and   *)
(* the event handlers.  Every handler is cut at its awaits: one action per *)
(* event-loop turn, so that other handlers interleave exactly where the    *)
(* JavaScript run-to-completion semantics lets them.                       *)
(***************************************************************************)
EXTENDS Integers, Sequences, FiniteSets, TLC

\* ---------------------------------------------------------------- bounds
MaxRestarts == 1      \* process interruptions followed by a reload
MaxRaces == 2         \* user events arriving while a handler is still suspended
MaxKeyOps == 2        \* operations on the 'settings' store requested and not yet run
MaxFaultLen == 3      \* writes fail only while capturedImages is no longer than this

\* ---------------------------------------------------------------- values
Null == <<>>                      \* null / undefined (currentDraft = null, no key)
Absent == <<>>                    \* no value under the key in an object store
Stored(v) == <<v>>                \* a value under the key
GeminiKey == <<"key">>            \* a credential stored under 'geminiKey'
OtherKey == <<"other key">>       \* another credential

\* compressImage resolves with canvas.toDataURL('image/jpeg', 0.5): a jpeg
\* data URI that is a function of the file it was given.
compressImage(file) == <<"data:image/jpeg", file>>

\* The file the user picks: a photograph for the step the page is at.
PickedFile(n) == n + 1

SessionData(n, imgs) == [imageCounter |-> n, capturedImages |-> imgs]

VARIABLES
    imageCounter,     \* let imageCounter
    capturedImages,   \* let capturedImages
    currentDraft,     \* let currentDraft
    isProcessingFile, \* let isProcessingFile
    scanShown,        \* scanButton.style.display is not 'none'
    reviewShown,      \* reviewContainer does not carry the class 'hidden'
    timers,           \* scheduled setTimeout(() => fileInput.click(), 50) callbacks
    pickerOpen,       \* the file picker opened by fileInput.click() is showing
    pickerQueue,      \* pickers requested while one was showing, that the browser queued
    compressing,      \* the file a change handler is awaiting compressImage on, or Null
    saving,           \* confirm handlers awaiting saveSession, by position
    clearing,         \* scan handlers ('start new') awaiting clearSession
    procs,            \* processImages invocations in flight, by position
    initPc,           \* position of the DOMContentLoaded handler
    loaded,           \* what loadSession's get returned, while it is being delivered
    txQueue,          \* requested transactions on the 'session' store, oldest first
    kvsSession,       \* the 'session' store's entry under SESSION_ID
    kvsKey,           \* the 'settings' store's entry under 'geminiKey'
    primaryReqs,      \* bodies POSTed to /identify for the session that is alive
    secondaryReqs,    \* requests sent to Gemini for the session that is alive
    restarts,         \* interruptions so far
    races,            \* user events so far that arrived while a handler was suspended
    sequential,       \* every user action so far was taken with nothing else in flight
    bootSession,      \* the 'session' entry as the last interruption left it
    bootRaces,        \* races when the page was last loaded
    lastEvent,        \* the last user event: a click, a pick, a reload
    procPc,           \* position of the processImages invocation followed in detail
    outcomes,         \* what the relay, the settings store and Gemini answer to it
    result,           \* processImages: let result
    resultsShown,     \* what resultsDiv shows
    keyQueue,         \* operations requested on the 'settings' store, oldest first
    relay             \* server.js: the POST /identify request being handled by handleIdentify

vars == <<imageCounter, capturedImages, currentDraft, isProcessingFile, scanShown,
          reviewShown, timers, pickerOpen, pickerQueue, compressing, saving, clearing, procs,
          initPc, loaded, txQueue, kvsSession, kvsKey, primaryReqs, secondaryReqs,
          restarts, races, sequential, bootSession, bootRaces,
          lastEvent, procPc, outcomes, result, resultsShown, keyQueue, relay>>

memory == <<imageCounter, capturedImages, currentDraft, isProcessingFile>>
ui == <<scanShown, reviewShown>>
picker == <<timers, pickerOpen, pickerQueue, compressing>>
store == <<txQueue, kvsSession, kvsKey>>
requests == <<primaryReqs, secondaryReqs>>
boot == <<restarts, bootSession, bootRaces>>
orch == <<procPc, outcomes, result, resultsShown>>


\* Mutation: the stored credential travels with the body.
IdentifyRequestWithKey(images) ==
    [images |-> images, organs |-> <<"auto", "auto", "auto">>, detectDisease |-> TRUE,
     lang |-> "vi", apiKey |-> kvsKey]

\* The body POSTed to /identify by processImages (lines 213-222).
IdentifyRequest(images) ==
    [images |-> images, organs |-> <<"auto", "auto", "auto">>, detectDisease |-> TRUE,
     lang |-> "vi"]

\* What callGemini sends to Gemini (lines 282-315): the client is constructed
\* with the key, the content carries the images.
GeminiRequest(apiKey, images) == [apiKey |-> apiKey, images |-> images]

\* server.js is handling no request.
NoRequest == [pc |-> "idle"]

NoProcs == [fetch |-> 0, getKey |-> 0, gemini |-> 0, clear |-> 0]
ProcCount == procs.fetch + procs.getKey + procs.gemini + procs.clear

NoSaving == [open |-> 0, tx |-> 0, done |-> 0]
SavingCount == saving.open + saving.tx + saving.done

\* Nothing is suspended or scheduled: every handler has run to its end and every
\* requested transaction has completed.
Quiescent ==
    /\ initPc = "done"
    /\ timers = 0
    /\ compressing = Null
    /\ SavingCount = 0
    /\ clearing = 0
    /\ procs = NoProcs
    /\ txQueue = <<>>

\* ---------------------------------------------------------------- Init
\* The page as loaded the first time: the module's top level has run, the
\* handlers are registered, DOMContentLoaded is about to fire, the session
\* store is empty and the settings store holds a key or not.
Init ==
    /\ imageCounter = 0
    /\ capturedImages = <<>>
    /\ currentDraft = Null
    /\ isProcessingFile = FALSE
    /\ scanShown = TRUE
    /\ reviewShown = FALSE
    /\ timers = 0
    /\ pickerOpen = FALSE
    /\ pickerQueue = 0
    /\ compressing = Null
    /\ saving = NoSaving
    /\ clearing = 0
    /\ procs = NoProcs
    /\ initPc = "getKey"
    /\ loaded = Absent
    /\ txQueue = <<>>
    /\ kvsSession = Absent
    /\ kvsKey \in {Absent, Stored(GeminiKey)}
    /\ primaryReqs = <<>>
    /\ secondaryReqs = <<>>
    /\ restarts = 0
    /\ races = 0
    /\ sequential = TRUE
    /\ bootSession = Absent
    /\ bootRaces = 0
    /\ lastEvent = "load"
    /\ procPc = "idle"
    /\ outcomes = Null
    /\ result = Null
    /\ resultsShown = "hidden"
    /\ keyQueue = <<>>
    /\ relay = NoRequest

\* ---------------------------------------------------------------- UI helpers
\* showCurrentStep: hides the review, returns early at imageCounter >= 3,
\* otherwise shows the scan button.
ShowStepScan(n, shown) == IF n >= 3 THEN shown ELSE TRUE

\* scanButton handler, line 111: the button acts as 'start new'.
StartNewBranch(n) == n >= 3

\* Mutation: the confirm handler starts processing only after a fourth image.
ConfirmDoneAfterFour(n) == n > 3

\* confirmButton handler, line 184: three images are captured.
ConfirmDone(n) == n >= 3

\* Mutation: loadSession restores the counter and forgets the images.
RestoredImagesEmpty(data) == <<>>

\* loadSession, line 459: data.capturedImages || [].
RestoredImages(data) == data.capturedImages

\* Mutation: loadSession resumes processing only for a counter above 3.
ResumeNeededAfterFour(n) == n > 3

\* loadSession, line 463: the restored session was ready to process.
ResumeNeeded(n) == n >= 3


\* ---------------------------------------------------------------- user events
\* A user event is taken at any time; those that arrive while a handler is
\* suspended or a callback scheduled are counted, and bounded.
UserEvent ==
    /\ ~Quiescent => races < MaxRaces
    /\ races' = IF Quiescent THEN races ELSE races + 1

\* Mutation: the scan handler opens the camera without the busy check.
ScanClickNoBusyCheck ==
    /\ UNCHANGED <<orch, keyQueue, relay>>
    /\ UserEvent
    /\ scanShown
    /\ ~pickerOpen
    /\ IF StartNewBranch(imageCounter)
       THEN /\ clearing' = clearing + 1
            /\ lastEvent' = "start"
            /\ timers' = timers
            /\ sequential' = FALSE
       ELSE /\ timers' = timers + 1
            /\ lastEvent' = "scan"
            /\ clearing' = clearing
            /\ sequential' = (sequential /\ Quiescent /\ ~pickerOpen /\ ~isProcessingFile)
    /\ UNCHANGED <<memory, ui, pickerOpen, pickerQueue, compressing, saving, procs, initPc, loaded,
                   store, requests, boot>>

\* scanButton 'click' (lines 104-137).
ScanClick ==
    /\ UNCHANGED <<orch, keyQueue, relay>>
    /\ UserEvent
    /\ scanShown
    /\ ~pickerOpen
    /\ IF StartNewBranch(imageCounter)
       THEN /\ clearing' = clearing + 1           \* await clearSession()
            /\ lastEvent' = "start"
            /\ timers' = timers
            /\ sequential' = FALSE
       ELSE /\ timers' = IF isProcessingFile THEN timers ELSE timers + 1
            /\ lastEvent' = "scan"
            /\ clearing' = clearing
            /\ sequential' = (sequential /\ Quiescent /\ ~pickerOpen /\ ~isProcessingFile)
    /\ UNCHANGED <<memory, ui, pickerOpen, pickerQueue, compressing, saving, procs, initPc, loaded,
                   store, requests, boot>>

\* The callback of setTimeout (lines 134-136): fileInput.click() opens the
\* picker. With a picker already showing the browser either drops the request
\* or queues it behind the one showing.
TimerFires ==
    /\ UNCHANGED <<orch, keyQueue, relay>>
    /\ UNCHANGED <<races, lastEvent>>
    /\ timers > 0
    /\ timers' = timers - 1
    /\ IF pickerOpen
       THEN /\ pickerOpen' = TRUE
            /\ pickerQueue' \in {pickerQueue, pickerQueue + 1}
       ELSE /\ pickerOpen' = TRUE
            /\ pickerQueue' = pickerQueue
    /\ UNCHANGED <<memory, ui, compressing, saving, clearing, procs, initPc, loaded,
                   store, requests, boot, sequential>>

\* The user dismisses the picker: no 'change' event.
PickCancel ==
    /\ UNCHANGED <<orch, keyQueue, relay>>
    /\ UserEvent
    /\ lastEvent' = "cancel"
    /\ pickerOpen
    /\ timers = 0
    /\ pickerOpen' = (pickerQueue > 0)              \* a queued picker shows next
    /\ pickerQueue' = IF pickerQueue > 0 THEN pickerQueue - 1 ELSE 0
    /\ sequential' = FALSE
    /\ UNCHANGED <<memory, ui, timers, compressing, saving, clearing, procs, initPc,
                   loaded, store, requests, boot>>

\* fileInput 'change' (lines 141-148), up to await compressImage(file).
FileChange ==
    /\ UNCHANGED <<orch, keyQueue, relay>>
    /\ UserEvent
    /\ lastEvent' = "pick"
    /\ pickerOpen
    /\ timers = 0
    /\ pickerOpen' = (pickerQueue > 0)              \* a queued picker shows next
    /\ pickerQueue' = IF pickerQueue > 0 THEN pickerQueue - 1 ELSE 0
    /\ IF isProcessingFile
       THEN UNCHANGED <<isProcessingFile, compressing>>
       ELSE /\ isProcessingFile' = TRUE
            /\ compressing' = Stored(PickedFile(Len(capturedImages)))
    /\ sequential' = (sequential /\ Quiescent /\ currentDraft = Null)
    /\ UNCHANGED <<imageCounter, capturedImages, currentDraft, ui, timers, saving,
                   clearing, procs, initPc, loaded, store, requests, boot>>

\* fileInput 'change' after compressImage resolved (lines 152-165).
CompressDone ==
    /\ UNCHANGED <<orch, keyQueue, relay>>
    /\ UNCHANGED <<races, lastEvent>>
    /\ compressing # Null
    /\ currentDraft' = compressImage(compressing[1])
    /\ scanShown' = FALSE               \* showReview
    /\ reviewShown' = TRUE
    /\ isProcessingFile' = FALSE        \* finally
    /\ compressing' = Null
    /\ UNCHANGED <<imageCounter, capturedImages, timers, pickerOpen, pickerQueue, saving, clearing,
                   procs, initPc, loaded, store, requests, boot, sequential>>

\* The picked file is not an image: compressImage sets no onerror handler
\* (lines 79-100), so its promise never settles and the change handler stays
\* suspended at line 152 for good; its finally block never runs.
DecodeFails ==
    /\ UNCHANGED <<orch, keyQueue, relay>>
    /\ UNCHANGED <<races, lastEvent>>
    /\ compressing # Null
    /\ compressing' = Null
    /\ UNCHANGED <<memory, ui, timers, pickerOpen, pickerQueue, saving, clearing, procs, initPc, loaded,
                   store, requests, boot, sequential>>

\* Mutation: retake also drops the image confirmed last.
RetakeClickPops ==
    /\ UNCHANGED <<orch, keyQueue, relay>>
    /\ UserEvent
    /\ lastEvent' = "retake"
    /\ reviewShown
    /\ ~pickerOpen
    /\ timers = 0
    /\ currentDraft' = Null
    /\ reviewShown' = FALSE
    /\ scanShown' = ShowStepScan(imageCounter, scanShown)
    /\ sequential' = FALSE
    /\ capturedImages' = SubSeq(capturedImages, 1, Len(capturedImages) - 1)
    /\ imageCounter' = IF imageCounter > 0 THEN imageCounter - 1 ELSE 0
    /\ UNCHANGED <<isProcessingFile, picker, saving, clearing, procs, initPc, loaded,
                   store, requests, boot>>

\* retakeButton 'click' (lines 169-173).
RetakeClick ==
    /\ UNCHANGED <<orch, keyQueue, relay>>
    /\ UserEvent
    /\ lastEvent' = "retake"
    /\ reviewShown
    /\ ~pickerOpen
    /\ timers = 0
    /\ currentDraft' = Null
    /\ reviewShown' = FALSE             \* showCurrentStep
    /\ scanShown' = ShowStepScan(imageCounter, scanShown)
    /\ sequential' = FALSE
    /\ UNCHANGED <<imageCounter, capturedImages, isProcessingFile, picker, saving,
                   clearing, procs, initPc, loaded, store, requests, boot>>

\* confirmButton 'click' (lines 175-181), up to await saveSession().
ConfirmClick ==
    /\ UNCHANGED <<orch, keyQueue, relay>>
    /\ UserEvent
    /\ lastEvent' = "confirm"
    /\ reviewShown
    /\ ~pickerOpen
    /\ timers = 0
    /\ IF currentDraft = Null
       THEN UNCHANGED <<capturedImages, imageCounter, saving>>
       ELSE /\ capturedImages' = Append(capturedImages, currentDraft)
            /\ imageCounter' = imageCounter + 1
            /\ saving' = [saving EXCEPT !.open = @ + 1]
    /\ sequential' = (sequential /\ Quiescent /\ currentDraft # Null)
    /\ UNCHANGED <<currentDraft, isProcessingFile, ui, picker, clearing, procs, initPc,
                   loaded, store, requests, boot>>

\* ---------------------------------------------------------------- session store
Tx(op, data) == [op |-> op, data |-> data]

\* saveSession after await openDB() (lines 430-434): the data is read from the
\* variables now, and the put is requested.
SaveOpened ==
    /\ UNCHANGED <<orch, keyQueue, relay>>
    /\ UNCHANGED <<races, lastEvent>>
    /\ saving.open > 0
    /\ saving' = [saving EXCEPT !.open = @ - 1, !.tx = @ + 1]
    /\ txQueue' = Append(txQueue, Tx("put", Stored(SessionData(imageCounter, capturedImages))))
    /\ UNCHANGED <<memory, ui, picker, clearing, procs, initPc, loaded, kvsSession,
                   kvsKey, requests, boot, sequential>>

\* Mutation: the two entries live under one key, and deleting the session
\* deletes the credential with it.
KvsStepOneKey ==
    /\ UNCHANGED <<orch, keyQueue, relay>>
    /\ UNCHANGED <<races, lastEvent>>
    /\ txQueue # <<>>
    /\ LET t == Head(txQueue) IN
         /\ txQueue' = Tail(txQueue)
         /\ kvsSession' = CASE t.op = "put" -> t.data
                            [] t.op = "delete" -> Absent
                            [] OTHER -> kvsSession
         /\ kvsKey' = IF t.op = "delete" THEN Absent ELSE kvsKey
         /\ saving' = IF t.op = "put"
                      THEN [saving EXCEPT !.tx = @ - 1, !.done = @ + 1]
                      ELSE saving
         /\ initPc' = IF t.op = "get" THEN "load_got" ELSE initPc
         /\ loaded' = IF t.op = "get" THEN kvsSession ELSE loaded
    /\ UNCHANGED <<memory, ui, picker, clearing, procs, requests,
                   boot, sequential>>

\* IndexedDB runs the transactions on one store in the order they were created.
\* A put that completes fires tx.oncomplete of the saveSession that made it; the
\* get of loadSession delivers the entry it read.
KvsStep ==
    /\ UNCHANGED <<orch, keyQueue, relay>>
    /\ UNCHANGED <<races, lastEvent>>
    /\ txQueue # <<>>
    /\ LET t == Head(txQueue) IN
         /\ txQueue' = Tail(txQueue)
         /\ kvsSession' = CASE t.op = "put" -> t.data
                            [] t.op = "delete" -> Absent
                            [] OTHER -> kvsSession
         /\ saving' = IF t.op = "put"
                      THEN [saving EXCEPT !.tx = @ - 1, !.done = @ + 1]
                      ELSE saving
         /\ initPc' = IF t.op = "get" THEN "load_got" ELSE initPc
         /\ loaded' = IF t.op = "get" THEN kvsSession ELSE loaded
    /\ UNCHANGED <<memory, ui, picker, clearing, procs, kvsKey, requests,
                   boot, sequential>>

\* confirmButton 'click' after await saveSession() (lines 182-189).
ConfirmResume ==
    /\ UNCHANGED <<orch, keyQueue, relay>>
    /\ UNCHANGED <<races, lastEvent>>
    /\ saving.done > 0
    /\ saving' = [saving EXCEPT !.done = @ - 1]
    /\ currentDraft' = Null
    /\ reviewShown' = FALSE
    /\ IF ConfirmDone(imageCounter)
       THEN /\ procs' = [procs EXCEPT !.fetch = @ + 1]                 \* processImages()
            /\ primaryReqs' = Append(primaryReqs, IdentifyRequest(capturedImages))
            /\ scanShown' = FALSE                              \* showProcessing
       ELSE /\ scanShown' = TRUE                               \* showCurrentStep
            /\ UNCHANGED <<procs, primaryReqs>>
    /\ UNCHANGED <<imageCounter, capturedImages, isProcessingFile, picker, clearing,
                   initPc, loaded, store, secondaryReqs, boot, sequential>>

\* Mutation: 'start new' resets the counter and keeps the images.
StartResumeKeepsImages ==
    /\ UNCHANGED <<orch, keyQueue, relay>>
    /\ UNCHANGED <<races, lastEvent>>
    /\ clearing > 0
    /\ clearing' = clearing - 1
    /\ txQueue' = Append(txQueue, Tx("delete", Absent))
    /\ imageCounter' = 0
    /\ reviewShown' = FALSE
    /\ scanShown' = TRUE
    /\ primaryReqs' = <<>>
    /\ secondaryReqs' = <<>>
    /\ UNCHANGED <<capturedImages, currentDraft, isProcessingFile, picker, saving, procs,
                   initPc, loaded, kvsSession, kvsKey, boot, sequential>>

\* scanButton 'click' after await clearSession() (lines 114-121): the delete is
\* requested (clearSession does not wait for it), the session is reset.
StartResume ==
    /\ UNCHANGED <<orch, keyQueue, relay>>
    /\ UNCHANGED <<races, lastEvent>>
    /\ clearing > 0
    /\ clearing' = clearing - 1
    /\ txQueue' = Append(txQueue, Tx("delete", Absent))
    /\ imageCounter' = 0
    /\ capturedImages' = <<>>
    /\ reviewShown' = FALSE                                    \* showCurrentStep
    /\ scanShown' = TRUE
    /\ primaryReqs' = <<>>                                    \* a new session: new images
    /\ secondaryReqs' = <<>>
    /\ UNCHANGED <<currentDraft, isProcessingFile, picker, saving, procs, initPc, loaded,
                   kvsSession, kvsKey, boot, sequential>>

\* ---------------------------------------------------------------- processImages
\* Mutation: a failed fetch is retried.
ProcFetchRetry ==
    /\ UNCHANGED <<orch, keyQueue, relay>>
    /\ UNCHANGED <<races, lastEvent>>
    /\ procs.fetch > 0
    /\ \/ /\ procs' = [procs EXCEPT !.fetch = @ - 1, !.getKey = @ + 1]
          /\ primaryReqs' = primaryReqs
       \/ /\ procs' = procs
          /\ Len(primaryReqs) < 3
          /\ primaryReqs' = Append(primaryReqs, IdentifyRequest(capturedImages))
    /\ UNCHANGED <<memory, ui, picker, saving, clearing, initPc, loaded, store,
                   secondaryReqs, boot, sequential>>

\* fetch('/identify') settled and its body read, or either failed (lines
\* 213-229); then getKey() is awaited.
ProcFetch ==
    /\ UNCHANGED <<orch, keyQueue, relay>>
    /\ UNCHANGED <<races, lastEvent>>
    /\ procs.fetch > 0
    /\ procs' = [procs EXCEPT !.fetch = @ - 1, !.getKey = @ + 1]
    /\ UNCHANGED <<memory, ui, picker, saving, clearing, initPc, loaded, store, requests,
                   boot, sequential>>

\* getKey() resolved (lines 232-234, 282-315). With a key callGemini is entered:
\* its image parts are built from capturedImages as they are now and the request
\* is sent, unless the import of the SDK fails and callGemini returns null.
\* Without a key, or with null returned, the result is displayed and the
\* finally block runs up to await clearSession() (lines 240-247).
ProcKey(imported) ==
    /\ UNCHANGED <<orch, keyQueue, relay>>
    /\ UNCHANGED <<races, lastEvent>>
    /\ procs.getKey > 0
    /\ IF kvsKey # Absent /\ imported
       THEN /\ procs' = [procs EXCEPT !.getKey = @ - 1, !.gemini = @ + 1]
            /\ secondaryReqs' = Append(secondaryReqs, GeminiRequest(kvsKey[1], capturedImages))
            /\ imageCounter' = imageCounter
       ELSE /\ procs' = [procs EXCEPT !.getKey = @ - 1, !.clear = @ + 1]
            /\ secondaryReqs' = secondaryReqs
            /\ imageCounter' = 4
    /\ UNCHANGED <<capturedImages, currentDraft, isProcessingFile, ui, picker, saving,
                   clearing, initPc, loaded, store, primaryReqs, boot, sequential>>

\* callGemini returned, with a parsed object or with null (lines 316-326,
\* 235-247): the result is displayed and the finally block runs up to
\* await clearSession().
ProcGemini ==
    /\ UNCHANGED <<orch, keyQueue, relay>>
    /\ UNCHANGED <<races, lastEvent>>
    /\ procs.gemini > 0
    /\ procs' = [procs EXCEPT !.gemini = @ - 1, !.clear = @ + 1]
    /\ imageCounter' = 4
    /\ UNCHANGED <<capturedImages, currentDraft, isProcessingFile, ui, picker, saving,
                   clearing, initPc, loaded, store, requests, boot, sequential>>

\* Mutation: the finally block does not clear the session.
ProcClearedNoDelete ==
    /\ UNCHANGED <<orch, keyQueue, relay>>
    /\ UNCHANGED <<races, lastEvent>>
    /\ procs.clear > 0
    /\ procs' = [procs EXCEPT !.clear = @ - 1]
    /\ scanShown' = TRUE
    /\ UNCHANGED <<memory, reviewShown, picker, saving, clearing, initPc, loaded,
                   store, requests, boot, sequential>>

\* processImages after await clearSession() (lines 247-254, 477-486): the delete
\* is requested (clearSession does not wait for it) and the scan button is shown.
ProcCleared ==
    /\ UNCHANGED <<orch, keyQueue, relay>>
    /\ UNCHANGED <<races, lastEvent>>
    /\ procs.clear > 0
    /\ procs' = [procs EXCEPT !.clear = @ - 1]
    /\ txQueue' = Append(txQueue, Tx("delete", Absent))
    /\ scanShown' = TRUE
    /\ UNCHANGED <<memory, reviewShown, picker, saving, clearing, initPc, loaded,
                   kvsSession, kvsKey, requests, boot, sequential>>

\* ---------------------------------------------------------------- start-up
\* DOMContentLoaded after await getKey() (lines 529-533): loadSession is entered.
InitKey ==
    /\ UNCHANGED <<orch, keyQueue, relay>>
    /\ UNCHANGED <<races, lastEvent>>
    /\ initPc = "getKey"
    /\ initPc' = "load_open"
    /\ UNCHANGED <<memory, ui, picker, saving, clearing, procs, loaded, store, requests,
                   boot, sequential>>

\* loadSession after await openDB() (lines 449-451): the get is requested.
LoadOpened ==
    /\ UNCHANGED <<orch, keyQueue, relay>>
    /\ UNCHANGED <<races, lastEvent>>
    /\ initPc = "load_open"
    /\ initPc' = "load_get"
    /\ txQueue' = Append(txQueue, Tx("get", Absent))
    /\ UNCHANGED <<memory, ui, picker, saving, clearing, procs, loaded, kvsSession,
                   kvsKey, requests, boot, sequential>>

\* loadSession after the get resolved, and the rest of DOMContentLoaded
\* (lines 456-474, 533-541).
LoadResume ==
    /\ UNCHANGED <<orch, keyQueue, relay>>
    /\ UNCHANGED <<races, lastEvent>>
    /\ initPc = "load_got"
    /\ initPc' = "done"
    /\ loaded' = Absent
    /\ reviewShown' = FALSE
    /\ IF loaded # Absent
       THEN /\ imageCounter' = loaded[1].imageCounter
            /\ capturedImages' = RestoredImages(loaded[1])
            /\ IF ResumeNeeded(loaded[1].imageCounter)
               THEN /\ procs' = [procs EXCEPT !.fetch = @ + 1]                \* processImages()
                    /\ primaryReqs' = Append(primaryReqs, IdentifyRequest(RestoredImages(loaded[1])))
                    /\ scanShown' = FALSE
               ELSE /\ scanShown' = ShowStepScan(loaded[1].imageCounter, scanShown)
                    /\ UNCHANGED <<procs, primaryReqs>>
       ELSE /\ scanShown' = ShowStepScan(imageCounter, scanShown)
            /\ UNCHANGED <<imageCounter, capturedImages, procs, primaryReqs>>
    /\ UNCHANGED <<currentDraft, isProcessingFile, picker, saving, clearing, store,
                   secondaryReqs, boot, sequential>>

\* The process is interrupted (reload, crash, kill) and the page is loaded
\* again: the variables are constructed anew, the handlers suspended and the
\* transactions not yet run are gone, the stores keep what was written.
Restart ==
    /\ UNCHANGED <<orch, relay>>
    /\ keyQueue' = <<>>
    /\ races' = races
    /\ restarts < MaxRestarts
    /\ restarts' = restarts + 1
    /\ bootSession' = kvsSession
    /\ bootRaces' = races
    /\ lastEvent' = "load"
    /\ imageCounter' = 0
    /\ capturedImages' = <<>>
    /\ currentDraft' = Null
    /\ isProcessingFile' = FALSE
    /\ scanShown' = TRUE
    /\ reviewShown' = FALSE
    /\ timers' = 0
    /\ pickerOpen' = FALSE
    /\ pickerQueue' = 0
    /\ compressing' = Null
    /\ saving' = NoSaving
    /\ clearing' = 0
    /\ procs' = NoProcs
    /\ initPc' = "getKey"
    /\ loaded' = Absent
    /\ txQueue' = <<>>
    /\ sequential' = FALSE
    /\ primaryReqs' = IF kvsSession = Absent THEN <<>> ELSE primaryReqs
    /\ secondaryReqs' = IF kvsSession = Absent THEN <<>> ELSE secondaryReqs
    /\ UNCHANGED <<kvsSession, kvsKey>>

Next ==
    \/ ScanClick
    \/ TimerFires
    \/ PickCancel
    \/ FileChange
    \/ CompressDone
    \/ DecodeFails
    \/ RetakeClick
    \/ ConfirmClick
    \/ SaveOpened
    \/ KvsStep
    \/ ConfirmResume
    \/ StartResume
    \/ ProcFetch
    \/ \E imported \in BOOLEAN : ProcKey(imported)
    \/ ProcGemini
    \/ ProcCleared
    \/ InitKey
    \/ LoadOpened
    \/ LoadResume
    \/ Restart

Spec == Init /\ [][Next]_vars

\* ---------------------------------------------------------------- results
\* A value as JSON.parse returns it, or as buildPlantnetResult builds it: its
\* kind, whether it is the empty value of its kind ({}, [], 0, "", false), and
\* the fields of the result shape it carries, each absent (Null) or Stored.
\* JavaScript's null and undefined are Null.
Json(kind, empty, fields) == [kind |-> kind, empty |-> empty, fields |-> fields]

NoFields == [best_match |-> Null, health_assessment |-> Null, care_guide |-> Null,
             fun_facts |-> Null]

EmptyObject == Json("object", TRUE, NoFields)

\* if (x): null, undefined, 0, "" and false are falsy.
Truthy(v) ==
    /\ v # Null
    /\ (v[1].kind \in {"number", "string", "boolean"} => ~v[1].empty)

\* Object.keys(x).length === 0: a number or a boolean has no keys, a string has
\* one per character, an array one per element.
NoKeys(v) == IF v[1].kind \in {"number", "boolean"} THEN TRUE ELSE v[1].empty

\* The relay's answer as the page reads it: data.identify?.results and
\* data.diseases?.results, each a list, or Null when the field or its results
\* are missing (an error value, null).
Body(identify, diseases) == [identify |-> identify, diseases |-> diseases]

Candidate(species, score) == [species |-> species, score |-> score]
Species(name, commonNames) == [scientificNameWithoutAuthor |-> name, commonNames |-> commonNames]

\* x?.length > 0 on a list that may be missing.
HasResults(r) == r # Null /\ Len(r[1]) > 0

\* buildPlantnetResult (lines 259-278) with top the candidate it reads.
PlantnetResultOf(data, top) ==
    LET best == [scientific_name |-> IF top.species = Null THEN ""
                                     ELSE top.species[1].scientificNameWithoutAuthor,
                 common_name |-> IF top.species = Null \/ top.species[1].commonNames = <<>>
                                 THEN "" ELSE top.species[1].commonNames[1],
                 family |-> Null,
                 confidence |-> top.score]
        health == IF HasResults(data.diseases)
                  THEN Stored([status |-> Null, possible_issues |-> Null,
                               issues |-> Stored(data.diseases[1])])
                  ELSE Null
    IN  Json("object", FALSE,
             [NoFields EXCEPT !.best_match = Stored(best), !.health_assessment = health])

\* Mutation: the best match is read from the last candidate.
buildPlantnetResultLast(data) == PlantnetResultOf(data, data.identify[1][Len(data.identify[1])])

\* buildPlantnetResult (lines 259-278); it is called with data.identify.results
\* non-empty, so results[0] exists.
buildPlantnetResult(data) == PlantnetResultOf(data, data.identify[1][1])

\* ---------------------------------------------------------------- Gemini's text
\* A text is a sequence of characters; a JSON document in it is one character
\* that stands for the whole document. LF is a line feed, SP a space.
\* "BQ" is a backquote; a fence marker is three of them.
Fence == <<"BQ", "BQ", "BQ">>
Whitespace == {"LF", "SP"}

\* The documents: the result shape filled in (with a high and with a low
\* confidence), {}, [], 0, 5, a string, null, and one that is not JSON.
Documents == {"V", "W", "E", "A", "Z", "N", "S", "U", "G"}

GeminiResultOf(confidence) ==
    Json("object", FALSE,
         [best_match |-> Stored([scientific_name |-> "Rosa chinensis", common_name |-> "hoa hong",
                                 family |-> Stored("Rosaceae"), confidence |-> confidence]),
          health_assessment |-> Stored([status |-> Stored("khoe"), possible_issues |-> Stored(<<>>),
                                        issues |-> Null]),
          care_guide |-> Stored("care"),
          fun_facts |-> Stored(<<"fact">>)])

GeminiResult == GeminiResultOf(95)
GeminiResultLow == GeminiResultOf(10)

\* What JSON.parse returns for a document, Stored; Null for the document null.
Parsed(doc) ==
    CASE doc = "V" -> Stored(GeminiResult)
      [] doc = "W" -> Stored(GeminiResultLow)
      [] doc = "E" -> Stored(EmptyObject)
      [] doc = "A" -> Stored(Json("array", TRUE, NoFields))
      [] doc = "Z" -> Stored(Json("number", TRUE, NoFields))
      [] doc = "N" -> Stored(Json("number", FALSE, NoFields))
      [] doc = "S" -> Stored(Json("string", FALSE, NoFields))
      [] OTHER -> Null

RECURSIVE TrimStart(_)
TrimStart(s) == IF s # <<>> /\ Head(s) \in Whitespace THEN TrimStart(Tail(s)) ELSE s

RECURSIVE TrimEnd(_)
TrimEnd(s) ==
    IF s # <<>> /\ s[Len(s)] \in Whitespace THEN TrimEnd(SubSeq(s, 1, Len(s) - 1)) ELSE s

\* String.prototype.trim
Trim(s) == TrimEnd(TrimStart(s))

StartsWith(s, p) == Len(s) >= Len(p) /\ SubSeq(s, 1, Len(p)) = p
EndsWith(s, p) == Len(s) >= Len(p) /\ SubSeq(s, Len(s) - Len(p) + 1, Len(s)) = p
Drop(s, n) == SubSeq(s, n + 1, Len(s))
DropLast(s, n) == SubSeq(s, 1, Len(s) - n)

\* The first replace of line 320: a leading fence tagged json, and a line feed
\* after it if there is one, are removed.
StripLeading(s) ==
    LET tagged == Fence \o <<"j", "s", "o", "n">>
    IN  IF StartsWith(s, tagged)
        THEN IF StartsWith(s, tagged \o <<"LF">>) THEN Drop(s, 8) ELSE Drop(s, 7)
        ELSE s

\* The second replace of line 320: a fence at the very end, and a line feed
\* before it if there is one, are removed.
StripTrailing(s) ==
    IF EndsWith(s, Fence)
    THEN IF EndsWith(s, <<"LF">> \o Fence) THEN DropLast(s, 4) ELSE DropLast(s, 3)
    ELSE s

\* text.trim().replace(...).replace(...) (line 320)
CleanText(text) == StripTrailing(StripLeading(Trim(text)))

\* JSON.parse accepts one document with white space around it, and throws on
\* anything else.
Parses(s) == Len(Trim(s)) = 1 /\ Trim(s)[1] \in Documents \ {"G"}
JSONparse(s) == Parsed(Trim(s)[1])

\* ---------------------------------------------------------------- providers
\* What fetch('/identify') and response.json() come to: the fetch rejects, the
\* body is not JSON, or a body is read.
Response(kind, data) == [kind |-> kind, data |-> data]

Rose == Candidate(Stored(Species("Rosa chinensis", <<"hoa hong">>)), 90)
Unnamed == Candidate(Null, 40)
Rust == [label |-> "rust", score |-> 70]

Responses ==
    {Response("network_error", Body(Null, Null)), Response("malformed", Body(Null, Null))}
    \cup {Response("body", Body(i, d)) :
            i \in {Null, Stored(<<>>), Stored(<<Rose>>), Stored(<<Unnamed, Rose>>)},
            d \in {Null, Stored(<<Rust>>)}}

\* What callGemini's awaits come to: the import of the SDK fails, generateContent
\* or result.response fails, or a text is returned.
Gemini(kind, text) == [kind |-> kind, text |-> text]

\* The texts: a document, bare or between a leading part and a trailing part.
Leads == {<<>>, Fence \o <<"LF">>, Fence \o <<"j", "s", "o", "n", "LF">>,
          Fence \o <<"j", "s", "o", "n">>, Fence \o <<"j", "s", "LF">>,
          <<"SP">> \o Fence \o <<"j", "s", "o", "n", "LF">>}
Trails == {<<>>, <<"LF">> \o Fence, Fence, <<"LF">> \o Fence \o <<"LF">>}
Text(lead, doc, trail) == [lead |-> lead, doc |-> doc, trail |-> trail,
                           chars |-> lead \o <<doc>> \o trail]
NoText == Text(<<>>, "G", <<>>)

GeminiOutcomes ==
    {Gemini("import_fails", NoText), Gemini("call_fails", NoText)}
    \cup {Gemini("text", Text(l, d, t)) : l \in Leads, d \in Documents, t \in Trails}

\* getKey() in processImages: it resolves with what the settings store holds, or
\* rejects when the store cannot be opened or read.
KeyReads == {"resolves", "rejects"}

Outcomes(response, keyRead, gemini) ==
    [response |-> response, keyRead |-> keyRead, gemini |-> gemini]

\* Mutation: callGemini returns the empty object when it fails.
callGeminiEmptyOnFailure(g) ==
    IF g.kind = "text" /\ Parses(CleanText(g.text.chars))
    THEN JSONparse(CleanText(g.text.chars))
    ELSE Stored(EmptyObject)

\* callGemini after its awaits (lines 316-326): the text is cleaned and parsed;
\* any failure is caught and null returned.
callGemini(g) ==
    IF g.kind = "text" /\ Parses(CleanText(g.text.chars))
    THEN JSONparse(CleanText(g.text.chars))
    ELSE Null

\* Mutation: a primary result is kept when there is one.
OverrideIfNone(preliminary, geminiResult) ==
    IF preliminary = Null /\ Truthy(geminiResult) THEN geminiResult ELSE preliminary

\* if (geminiResult) result = geminiResult (lines 235-237)
Override(preliminary, geminiResult) ==
    IF Truthy(geminiResult) THEN geminiResult ELSE preliminary

\* Mutation: a body without results leaves the empty object as the result.
PreliminaryOrEmpty(response) ==
    IF response.kind = "body" /\ HasResults(response.data.identify)
    THEN Stored(buildPlantnetResult(response.data))
    ELSE Stored(EmptyObject)

\* The inner try of processImages (lines 209-229): result after the fetch.
Preliminary(response) ==
    IF response.kind = "body" /\ HasResults(response.data.identify)
    THEN Stored(buildPlantnetResult(response.data))
    ELSE Null

\* Mutation: displayResult without its test for an empty result.
displayResultNoEmptyCheck(v) ==
    IF v # Null /\ (\/ v[1].fields.best_match # Null
                    \/ v[1].fields.health_assessment # Null
                    \/ v[1].fields.care_guide # Null
                    \/ (v[1].fields.fun_facts # Null /\ v[1].fields.fun_facts[1] # <<>>))
    THEN "html"
    ELSE "raw"

\* displayResult (lines 330-378): the message that nothing was identified, the
\* sections built from the fields present, or the JSON text of the value.
displayResult(v) ==
    IF ~Truthy(v) \/ NoKeys(v) THEN "unidentified"
    ELSE IF \/ v[1].fields.best_match # Null
            \/ v[1].fields.health_assessment # Null
            \/ v[1].fields.care_guide # Null
            \/ (v[1].fields.fun_facts # Null /\ v[1].fields.fun_facts[1] # <<>>)
         THEN "html"
         ELSE "raw"

\* ---------------------------------------------------------------- processImages, in detail
\* One invocation of processImages followed with its results: the page has
\* confirmed three images in turn, the third confirm has resumed and called
\* processImages, which has shown the processing view and issued the fetch.
\* The relay, the settings store and Gemini will answer as outcomes says.
ThreeImages == <<compressImage(PickedFile(0)), compressImage(PickedFile(1)),
                 compressImage(PickedFile(2))>>

InitRun ==
    /\ imageCounter = 3
    /\ capturedImages = ThreeImages
    /\ currentDraft = Null
    /\ isProcessingFile = FALSE
    /\ scanShown = FALSE
    /\ reviewShown = FALSE
    /\ timers = 0
    /\ pickerOpen = FALSE
    /\ pickerQueue = 0
    /\ compressing = Null
    /\ saving = NoSaving
    /\ clearing = 0
    /\ procs = [NoProcs EXCEPT !.fetch = 1]
    /\ initPc = "done"
    /\ loaded = Absent
    /\ txQueue = <<>>
    /\ kvsSession = Stored(SessionData(3, ThreeImages))
    /\ kvsKey \in {Absent, Stored(GeminiKey), Stored(OtherKey)}
    /\ primaryReqs = <<IdentifyRequest(ThreeImages)>>
    /\ secondaryReqs = <<>>
    /\ restarts = 0
    /\ races = 0
    /\ sequential = TRUE
    /\ bootSession = Absent
    /\ bootRaces = 0
    /\ lastEvent = "confirm"
    /\ procPc = "fetch"
    /\ outcomes \in {Outcomes(r, k, g) : r \in Responses, k \in KeyReads, g \in GeminiOutcomes}
    /\ result = Null
    /\ resultsShown = "hidden"
    /\ keyQueue = <<>>
    /\ relay = NoRequest

\* fetch('/identify') settled and its body read, or either failed and was caught
\* (lines 213-229); then getKey() is awaited.
RunFetch ==
    /\ UNCHANGED <<keyQueue, relay>>
    /\ procPc = "fetch"
    /\ procPc' = "getKey"
    /\ procs' = [procs EXCEPT !.fetch = @ - 1, !.getKey = @ + 1]
    /\ result' = Preliminary(outcomes.response)
    /\ UNCHANGED <<memory, ui, picker, saving, clearing, initPc, loaded, store, requests,
                   boot, races, sequential, lastEvent, outcomes, resultsShown>>

\* getKey() settled (lines 232-247). It rejected: the outer catch shows the
\* error. It resolved with a key: callGemini is entered and, unless the import
\* of the SDK fails, sends its request. Otherwise (no key, or callGemini
\* returned null at once) the result is displayed. The catch and the display
\* run on into the finally block, up to await clearSession().
RunKey ==
    /\ UNCHANGED <<keyQueue, relay>>
    /\ procPc = "getKey"
    /\ IF outcomes.keyRead = "resolves" /\ kvsKey # Absent /\ outcomes.gemini.kind # "import_fails"
       THEN /\ procPc' = "gemini"
            /\ procs' = [procs EXCEPT !.getKey = @ - 1, !.gemini = @ + 1]
            /\ secondaryReqs' = Append(secondaryReqs, GeminiRequest(kvsKey[1], capturedImages))
            /\ UNCHANGED <<imageCounter, resultsShown>>
       ELSE /\ procPc' = "clear"
            /\ procs' = [procs EXCEPT !.getKey = @ - 1, !.clear = @ + 1]
            /\ resultsShown' = IF outcomes.keyRead = "rejects" THEN "error"
                               ELSE displayResult(result)
            /\ imageCounter' = 4
            /\ UNCHANGED secondaryReqs
    /\ UNCHANGED <<capturedImages, currentDraft, isProcessingFile, ui, picker, saving,
                   clearing, initPc, loaded, store, primaryReqs, boot, races, sequential,
                   lastEvent, outcomes, result>>

\* callGemini returned (lines 234-247): its value overrides the result when it
\* is truthy, the result is displayed, and the finally block runs up to
\* await clearSession().
RunGemini ==
    /\ UNCHANGED <<keyQueue, relay>>
    /\ procPc = "gemini"
    /\ procPc' = "clear"
    /\ procs' = [procs EXCEPT !.gemini = @ - 1, !.clear = @ + 1]
    /\ result' = Override(result, callGemini(outcomes.gemini))
    /\ resultsShown' = displayResult(result')
    /\ imageCounter' = 4
    /\ UNCHANGED <<capturedImages, currentDraft, isProcessingFile, ui, picker, saving,
                   clearing, initPc, loaded, store, requests, boot, races, sequential,
                   lastEvent, outcomes>>

\* Mutation: the scan button stays hidden when processImages ends.
RunClearedHidden ==
    /\ UNCHANGED <<keyQueue, relay>>
    /\ procPc = "clear"
    /\ procPc' = "done"
    /\ procs' = [procs EXCEPT !.clear = @ - 1]
    /\ txQueue' = Append(txQueue, Tx("delete", Absent))
    /\ UNCHANGED <<memory, ui, picker, saving, clearing, initPc, loaded, kvsSession,
                   kvsKey, requests, boot, races, sequential, lastEvent, outcomes, result,
                   resultsShown>>

\* processImages after await clearSession() (lines 247-254): the delete has been
\* requested and the scan button is shown as 'start new'.
RunCleared ==
    /\ UNCHANGED <<keyQueue, relay>>
    /\ procPc = "clear"
    /\ procPc' = "done"
    /\ procs' = [procs EXCEPT !.clear = @ - 1]
    /\ txQueue' = Append(txQueue, Tx("delete", Absent))
    /\ scanShown' = TRUE
    /\ UNCHANGED <<memory, reviewShown, picker, saving, clearing, initPc, loaded, kvsSession,
                   kvsKey, requests, boot, races, sequential, lastEvent, outcomes, result,
                   resultsShown>>

NextRun ==
    \/ RunFetch
    \/ RunKey
    \/ RunGemini
    \/ RunCleared
    \/ KvsStep

\* Every await of processImages is resumed once what it waits for has settled,
\* and a requested transaction runs.
SpecRun == InitRun /\ [][NextRun]_vars /\ WF_vars(NextRun)

\* The same run with Gemini's text unfenced: which await settles, and how, does
\* not depend on the fences around the text.
InitSettle ==
    /\ InitRun
    /\ outcomes.gemini.kind = "text" =>
           (outcomes.gemini.text.lead = <<>> /\ outcomes.gemini.text.trail = <<>>)

SpecSettle == InitSettle /\ [][NextRun]_vars /\ WF_vars(NextRun)

\* ---------------------------------------------------------------- properties
Min(a, b) == IF a < b THEN a ELSE b

RECURSIVE AfterQueue(_, _)
\* The 'session' entry once the requested transactions q have all run on entry e.
AfterQueue(e, q) ==
    IF q = <<>> THEN e
    ELSE AfterQueue(CASE Head(q).op = "put" -> Head(q).data
                      [] Head(q).op = "delete" -> Absent
                      [] OTHER -> e,
                    Tail(q))

\* processImages invocations that have not reached their finally block.
Identifying == procs.fetch + procs.getKey + procs.gemini

\* No user event since the page was loaded (every event before the
\* DOMContentLoaded handler has finished arrives while it is suspended).
Untouched == races = bootRaces /\ lastEvent = "load"

\* C1: in a run of three capture->confirm cycles from a fresh session, each
\* taken after the previous handler has finished, once the third confirm has
\* resumed there are exactly 3 images, imageCounter is 3 (until processImages
\* sets the sentinel 4 in its finally block), and processImages has been invoked
\* exactly once, with those images.
C1_ThreeCyclesProcessOnce ==
    (sequential /\ imageCounter >= 3 /\ SavingCount = 0) =>
        /\ Len(capturedImages) = 3
        /\ imageCounter = (IF Identifying > 0 THEN 3 ELSE 4)
        /\ primaryReqs = <<IdentifyRequest(capturedImages)>>
        /\ ProcCount <= 1

\* The third confirm of a sequential run has resumed and invoked processImages.
C1_Witness ==
    /\ sequential
    /\ imageCounter = 3
    /\ SavingCount = 0
    /\ procs.fetch = 1
    /\ capturedImages = <<compressImage(1), compressImage(2), compressImage(3)>>

\* In a run of sequential capture->confirm cycles, from the completion of the
\* third confirm's write until processImages has finished, the store holds
\* imageCounter 3 and the three images.
C2_PersistedWhileProcessing ==
    (sequential /\ imageCounter >= 3 /\ (saving.done > 0 \/ ProcCount > 0)) =>
        kvsSession = Stored(SessionData(3, capturedImages))

\* loadSession on a persisted session with imageCounter >= 3, no user event
\* intervening since the load.
C2_ResumeStep ==
    (LoadResume /\ restarts > 0 /\ Untouched /\ bootSession # Absent
       /\ bootSession[1].imageCounter >= 3) =>
        /\ imageCounter' = bootSession[1].imageCounter
        /\ capturedImages' = bootSession[1].capturedImages
        /\ procs'.fetch = procs.fetch + 1
        /\ primaryReqs' = Append(primaryReqs, IdentifyRequest(bootSession[1].capturedImages))

\* C2: (a) in a run of three sequential capture->confirm cycles, from the
\* completion of the third confirm's write until processImages has finished, the
\* store holds imageCounter 3 and the three images, so an interruption there
\* leaves them persisted; (b) after an interruption that left a session with
\* imageCounter >= 3, loadSession (no user event intervening) restores that
\* counter and those images and invokes processImages with them.
C2_TripleResumed == []C2_PersistedWhileProcessing /\ [][C2_ResumeStep]_vars

\* A persisted triple has been restored after an interruption and is being
\* processed.
C2_Witness ==
    /\ restarts = 1
    /\ Untouched
    /\ initPc = "done"
    /\ bootSession = Stored(SessionData(3, <<compressImage(1), compressImage(2),
                                              compressImage(3)>>))
    /\ capturedImages = bootSession[1].capturedImages
    /\ imageCounter = 3
    /\ procs.fetch = 1

\* The step that ends the DOMContentLoaded handler, with nothing or a session
\* of imageCounter < 3 persisted and no user event since the load.
C3_StartStep ==
    (LoadResume /\ Untouched /\ (bootSession # Absent => bootSession[1].imageCounter < 3)) =>
        /\ imageCounter' = (IF bootSession = Absent THEN 0 ELSE bootSession[1].imageCounter)
        /\ capturedImages' = (IF bootSession = Absent THEN <<>>
                              ELSE bootSession[1].capturedImages)
        /\ currentDraft' = Null
        /\ scanShown'
        /\ ~reviewShown'
        /\ procs' = NoProcs

\* C3: when the DOMContentLoaded handler finishes with no user event since the
\* load: with no session persisted imageCounter is 0 and there are no images;
\* with a session of imageCounter n < 3 persisted, imageCounter is n and the
\* images are the persisted ones; in both cases the scan button is shown, the
\* review is hidden, currentDraft is null and processImages is not invoked.
C3_StartState == [][C3_StartStep]_vars

\* A session of two images has been restored after an interruption.
C3_Witness ==
    /\ restarts = 1
    /\ Untouched
    /\ initPc = "done"
    /\ bootSession = Stored(SessionData(2, <<compressImage(1), compressImage(2)>>))
    /\ imageCounter = 2
    /\ capturedImages = bootSession[1].capturedImages
    /\ currentDraft = Null
    /\ scanShown

NoRepeat(reqs) == \A i, j \in DOMAIN reqs : i # j => reqs[i] # reqs[j]

\* C4 (as claimed, for runs in which no user event overlaps a suspended
\* handler): no image list is submitted twice to the primary relay, nor twice
\* to the secondary, interruptions and restarts included.
C4_ExactlyOnce == races = 0 => (NoRepeat(primaryReqs) /\ NoRepeat(secondaryReqs))

\* One step of the submission discipline: a confirm that resumes at
\* imageCounter >= 3 and a load that restores imageCounter >= 3 invoke
\* processImages; an invocation sends one request to the primary relay and
\* nothing else sends one; a request to the secondary is sent only by an
\* invocation leaving its getKey await.
C4_InvocationStep ==
    /\ (ConfirmResume /\ imageCounter >= 3) => ProcCount' = ProcCount + 1
    /\ (LoadResume /\ loaded # Absent /\ imageCounter' >= 3) => ProcCount' = ProcCount + 1
    /\ ProcCount' = ProcCount + 1 => primaryReqs' = Append(primaryReqs, IdentifyRequest(capturedImages'))
    /\ (primaryReqs' # primaryReqs /\ primaryReqs' # <<>>) => ProcCount' = ProcCount + 1
    /\ (secondaryReqs' # secondaryReqs /\ secondaryReqs' # <<>>) =>
          /\ procs'.gemini = procs.gemini + 1
          /\ procs'.getKey = procs.getKey - 1
          /\ secondaryReqs' = Append(secondaryReqs, GeminiRequest(kvsKey[1], capturedImages))

\* C4 (amended): submission is once per invocation of processImages, not once
\* per triple. A triple whose confirm resumes at imageCounter >= 3, or that is
\* restored at imageCounter >= 3 after an interruption, is submitted by an
\* invocation of processImages; every invocation sends exactly one request to
\* the primary relay, with the images held when it is entered, and at most one
\* to the secondary; nothing is retried within an invocation. A triple restored
\* after an interruption is submitted again.
C4_OncePerInvocation == [][C4_InvocationStep]_vars

\* The triple has been submitted, the process interrupted, and the triple
\* submitted again by loadSession.
C4_Witness ==
    /\ races = 0
    /\ restarts = 1
    /\ Len(primaryReqs) = 2
    /\ primaryReqs[1] = primaryReqs[2]
    /\ Len(primaryReqs[1].images) = 3

C6_LengthIsMinCounter == Len(capturedImages) = Min(imageCounter, 3)

\* C7 (as claimed): currentDraft is null whenever imageCounter >= 3.
C7_NoDraftFromThree == imageCounter >= 3 => currentDraft = Null

\* A retake step taken with a draft under review.
C8_RetakeStep ==
    (RetakeClick /\ currentDraft # Null) =>
        /\ imageCounter' = imageCounter
        /\ capturedImages' = capturedImages
        /\ currentDraft' = Null
        /\ txQueue' = txQueue
        /\ kvsSession' = kvsSession

\* C8: a retake with a draft under review leaves imageCounter and capturedImages
\* unchanged, sets the draft to null, and neither requests a transaction on the
\* session store nor changes its entry.
C8_RetakeFrame == [][C8_RetakeStep]_vars

\* A retake has discarded the draft of the second step.
C8_Witness ==
    /\ lastEvent = "retake"
    /\ currentDraft = Null
    /\ imageCounter = 1
    /\ capturedImages = <<compressImage(1)>>
    /\ kvsSession = Stored(SessionData(1, capturedImages))

\* The step in which a confirm handler resumes from saveSession.
C9_ResumeStep ==
    ConfirmResume => kvsSession = Stored(SessionData(imageCounter, capturedImages))

\* C9 (as claimed): when a confirm handler resumes from saveSession and shows the
\* next state, the session entry read back equals the in-memory
\* {imageCounter, capturedImages}.
C9_PersistedEqualsShown == [][C9_ResumeStep]_vars

\* A click on the scan button as a start action.
C10_ClickStep == ScanClick => (imageCounter' = 0 /\ capturedImages' = <<>> /\ clearing' = clearing + 1)

C10_StartStep ==
    /\ (ScanClick /\ clearing' = clearing + 1) => imageCounter >= 3
    /\ (ScanClick /\ imageCounter >= 3) => clearing' = clearing + 1
    /\ StartResume =>
          /\ imageCounter' = 0
          /\ capturedImages' = <<>>
          /\ scanShown'
          /\ ~reviewShown'
          /\ AfterQueue(kvsSession', txQueue') = Absent

Completed == procPc = "done" /\ imageCounter = 4 /\ txQueue = <<>>

\* C11: whenever processImages is entered and its awaits settle, on every path
\* (a result shown, nothing identified, or the error shown) the session
\* eventually is Completed: imageCounter is 4, the session entry has been
\* deleted, and a click on the scan button is enabled and takes the start branch.
C11_ReachesCompleted ==
    <>(/\ Completed
       /\ kvsSession = Absent
       /\ resultsShown # "hidden"
       /\ ENABLED (ScanClick /\ clearing' = clearing + 1))

\* The error path has run to its end.
C11_Witness ==
    /\ Completed
    /\ kvsSession = Absent
    /\ resultsShown = "error"
    /\ scanShown

\* ---------------------------------------------------------------- properties of capture
\* C12 (as claimed): when the picked file cannot be decoded the capture fails
\* with imageCounter, capturedImages and currentDraft unchanged and the busy
\* flag isProcessingFile released, so that a capture for the same slot can be
\* triggered again.
C12_DecodeStep ==
    DecodeFails =>
        /\ imageCounter' = imageCounter
        /\ capturedImages' = capturedImages
        /\ currentDraft' = currentDraft
        /\ ~isProcessingFile'

C12_DecodeFailureReleases == [][C12_DecodeStep]_vars

\* A capture being compressed holds the busy flag.
C13_OneCapture == compressing # Null => isProcessingFile

\* A capture trigger that arrives while isProcessingFile is true: a 'change'
\* event, or a click on the scan button in its camera branch.
C13_BusyStep ==
    isProcessingFile =>
        /\ FileChange =>
              /\ UNCHANGED <<imageCounter, capturedImages, currentDraft, isProcessingFile>>
              /\ compressing' = compressing
        /\ (ScanClick /\ ~StartNewBranch(imageCounter)) =>
              /\ UNCHANGED <<imageCounter, capturedImages, currentDraft, isProcessingFile>>
              /\ compressing' = compressing
              /\ timers' = timers
              /\ pickerOpen' = pickerOpen

\* C13: while isProcessingFile is true a further capture trigger (a second
\* 'change' event, or a scan click that would open the camera) is rejected: it
\* changes neither currentDraft, imageCounter nor capturedImages, schedules no
\* picker and starts no compression; at most one capture is in flight.
C13_BusyRejects == []C13_OneCapture /\ [][C13_BusyStep]_vars

\* A scan click has been rejected while a file is being compressed.
C13_Witness ==
    /\ lastEvent = "scan"
    /\ isProcessingFile
    /\ compressing # Null
    /\ timers = 0
    /\ ~pickerOpen

\* C14 (as claimed): between a scan click that schedules fileInput.click() and
\* the resolution of that pick (a 'change' event or the picker dismissed), a
\* further scan click does not trigger the picker again.
C14_ClickStep == (ScanClick /\ (timers > 0 \/ pickerOpen)) => timers' = timers

C14_PickerOncePerPick == [][C14_ClickStep]_vars

\* The primary call failed, or its body carries no ranked results.
PrimaryFailed ==
    outcomes.response.kind # "body" \/ ~HasResults(outcomes.response.data.identify)

\* getKey() resolved in processImages, with a key or with none.
KeyAvailable == outcomes.keyRead = "resolves" /\ kvsKey # Absent
NoKeyStored == outcomes.keyRead = "resolves" /\ kvsKey = Absent

\* processImages has left its try block.
Settled == procPc \in {"clear", "done"}

\* C15: a failure of the primary call (the fetch rejects, the body is not JSON,
\* the body has no ranked results) leaves the preliminary result absent and is
\* not fatal: when getKey() returns a credential callGemini is still entered
\* (and sends its request unless the SDK cannot be imported), the unified result
\* is what callGemini returned when that is truthy and absent otherwise, and it
\* is shown by displayResult, not by the error path.
C15_PrimaryFailureIsolated ==
    PrimaryFailed =>
        /\ procPc = "getKey" => result = Null
        /\ (Settled /\ KeyAvailable) =>
              /\ result = (IF Truthy(callGemini(outcomes.gemini))
                           THEN callGemini(outcomes.gemini) ELSE Null)
              /\ outcomes.gemini.kind # "import_fails" =>
                    secondaryReqs = <<GeminiRequest(kvsKey[1], capturedImages)>>
              /\ resultsShown = displayResult(result)
              /\ resultsShown # "error"

\* The fetch was rejected and the result is Gemini's alone.
C15_Witness ==
    /\ procPc = "done"
    /\ outcomes.response.kind = "network_error"
    /\ KeyAvailable
    /\ result = Stored(GeminiResult)
    /\ resultsShown = "html"

\* C16: when callGemini returns a parsed value of the result shape, the unified
\* result equals that value exactly, whether or not the primary produced a
\* preliminary result and whatever the two confidences; no field of the primary
\* result is merged in.
C16_SecondaryOverrides ==
    (/\ Settled
     /\ KeyAvailable
     /\ callGemini(outcomes.gemini) \in {Stored(GeminiResult), Stored(GeminiResultLow)}) =>
        /\ result = callGemini(outcomes.gemini)
        /\ resultsShown = "html"

\* Both providers answered with a result, the primary with the higher
\* confidence; Gemini's stands.
C16_Witness ==
    /\ procPc = "done"
    /\ KeyAvailable
    /\ outcomes.response.kind = "body"
    /\ outcomes.response.data.identify = Stored(<<Rose>>)
    /\ outcomes.response.data.diseases # Null
    /\ result = Stored(GeminiResultLow)
    /\ result[1].fields.health_assessment[1].issues = Null

\* C17: when getKey() finds no credential, callGemini is never entered and no
\* request is sent to Gemini; if the relay returned at least one ranked
\* candidate the unified result is the one buildPlantnetResult derives:
\* best_match.confidence is the score of the top candidate and there is no
\* care_guide.
C17_PrimaryAlone ==
    NoKeyStored =>
        /\ procPc # "gemini"
        /\ secondaryReqs = <<>>
        /\ (Settled /\ ~PrimaryFailed) =>
              /\ result = Stored(buildPlantnetResult(outcomes.response.data))
              /\ result[1].fields.best_match[1].confidence =
                     outcomes.response.data.identify[1][1].score
              /\ result[1].fields.care_guide = Null
              /\ resultsShown = "html"

\* No key, two candidates: the first one's score is the confidence.
C17_Witness ==
    /\ procPc = "done"
    /\ NoKeyStored
    /\ outcomes.response.kind = "body"
    /\ outcomes.response.data.identify = Stored(<<Unnamed, Rose>>)
    /\ result[1].fields.best_match[1].confidence = 40
    /\ result[1].fields.care_guide = Null

\* callGemini failed: the SDK import or the call failed, or the text it got does
\* not parse after cleaning.
SecondaryFailed ==
    \/ outcomes.gemini.kind # "text"
    \/ ~Parses(CleanText(outcomes.gemini.text.chars))

\* C18: when callGemini fails or its text cannot be parsed, this is not fatal
\* and the unified result is the one derived from the primary, if the primary
\* produced a candidate: not the empty result, and not the error path.
C18_SecondaryFailureFallsBack ==
    (Settled /\ KeyAvailable /\ SecondaryFailed /\ ~PrimaryFailed) =>
        /\ result = Stored(buildPlantnetResult(outcomes.response.data))
        /\ resultsShown = "html"

\* Gemini answered with text that is not JSON; the primary's result is shown.
C18_Witness ==
    /\ procPc = "done"
    /\ KeyAvailable
    /\ outcomes.gemini.kind = "text"
    /\ outcomes.gemini.text.doc = "G"
    /\ ~PrimaryFailed
    /\ result = Stored(buildPlantnetResult(outcomes.response.data))
    /\ resultsShown = "html"

\* The secondary gave nothing usable: it was not called for lack of a
\* credential, it failed, or it returned a value without keys.
SecondaryUnusable ==
    \/ NoKeyStored
    \/ /\ KeyAvailable
       /\ \/ ~Truthy(callGemini(outcomes.gemini))
          \/ NoKeys(callGemini(outcomes.gemini))

WellFenced(t) == (t.lead = <<>> /\ t.trail = <<>>) \/ (t.lead # <<>> /\ t.trail # <<>>)

\* C20 (as claimed): for every text that is a JSON document between a leading
\* fence marker, bare or tagged, and a trailing fence marker, and for every
\* unfenced document, cleaning yields exactly the document, so that callGemini
\* returns the parse of the document and the unified result is built from it.
C20_FencesStripped ==
    (/\ Settled
     /\ KeyAvailable
     /\ outcomes.gemini.kind = "text"
     /\ WellFenced(outcomes.gemini.text)
     /\ outcomes.gemini.text.doc # "G") =>
        /\ Trim(CleanText(outcomes.gemini.text.chars)) = <<outcomes.gemini.text.doc>>
        /\ result = Override(Preliminary(outcomes.response), Parsed(outcomes.gemini.text.doc))

\* The secondary's text parsed to a JSON value that is not of the result
\* shape: the empty object, an array, a number, a string, null.
NonConforming ==
    /\ outcomes.gemini.kind = "text"
    /\ Parses(CleanText(outcomes.gemini.text.chars))
    /\ callGemini(outcomes.gemini) \notin {Stored(GeminiResult), Stored(GeminiResultLow)}

\* C28 (as claimed): a secondary response that parses as JSON but is not of the
\* result shape does not override the preliminary result: with a candidate
\* from the primary, the unified result stays the primary-derived one and is
\* the one shown.
C28_NonConformingIgnored ==
    (Settled /\ KeyAvailable /\ NonConforming /\ ~PrimaryFailed) =>
        /\ result = Preliminary(outcomes.response)
        /\ resultsShown = "html"

\* C22 (as claimed): a failed read of the stored credential during processing
\* is handled like no credential stored: the secondary is not called, the
\* primary-derived result, if any, is the unified result, and it is shown by
\* displayResult, not by the error path.
C22_KeyReadFailureSoft ==
    (Settled /\ outcomes.keyRead = "rejects") =>
        /\ secondaryReqs = <<>>
        /\ result = Preliminary(outcomes.response)
        /\ resultsShown = displayResult(Preliminary(outcomes.response))

\* A click on confirm while an earlier confirm handler is still suspended in
\* await saveSession().
C29_ConfirmStep ==
    (ConfirmClick /\ SavingCount > 0) =>
        /\ imageCounter' = imageCounter
        /\ capturedImages' = capturedImages
        /\ saving' = saving

\* C29 (as claimed): under every interleaving of handler invocations, a confirm
\* triggered while an earlier confirm is still suspended on its persistence
\* write has no effect, so that each reviewed draft is appended to
\* capturedImages at most once and advances imageCounter by at most one,
\* imageCounter is at most 3 until processImages sets the sentinel, and at most
\* one processImages runs at a time.
C29_ConfirmOncePerDraft ==
    /\ [][C29_ConfirmStep]_vars
    /\ [](Len(capturedImages) <= 3 /\ ProcCount <= 1)

\* ---------------------------------------------------------------- specification: early taps
\* The page has been loaded over whatever an earlier run left in the session
\* store (nothing, or a session of one, two or three images); the user has
\* tapped the scan button at once and the picker opened by the 50 ms timer is
\* showing, while the DOMContentLoaded handler is still suspended in its first
\* await (line 529).
StoredSessions ==
    {Absent} \cup {Stored(SessionData(n, SubSeq(ThreeImages, 1, n))) : n \in 1..3}

InitBoot ==
    /\ imageCounter = 0
    /\ capturedImages = <<>>
    /\ currentDraft = Null
    /\ isProcessingFile = FALSE
    /\ scanShown = TRUE
    /\ reviewShown = FALSE
    /\ timers = 0
    /\ pickerOpen = TRUE
    /\ pickerQueue = 0
    /\ compressing = Null
    /\ saving = NoSaving
    /\ clearing = 0
    /\ procs = NoProcs
    /\ initPc = "getKey"
    /\ loaded = Absent
    /\ txQueue = <<>>
    /\ kvsSession \in StoredSessions
    /\ kvsKey \in {Absent, Stored(GeminiKey)}
    /\ primaryReqs = <<>>
    /\ secondaryReqs = <<>>
    /\ restarts = 0
    /\ races = 0
    /\ sequential = FALSE
    /\ bootSession = kvsSession
    /\ bootRaces = 0
    /\ lastEvent = "scan"
    /\ procPc = "idle"
    /\ outcomes = Null
    /\ result = Null
    /\ resultsShown = "hidden"
    /\ keyQueue = <<>>
    /\ relay = NoRequest

SpecBoot == InitBoot /\ [][Next]_vars

\* A user event handled by the session: a click on scan, retake or confirm, a
\* picked file.
Trigger == ScanClick \/ FileChange \/ RetakeClick \/ ConfirmClick

\* processImages is in flight on a session of three images.
Processing == Identifying > 0 /\ imageCounter = 3

\* A trigger arriving while the session is Processing.
C27_TriggerStep ==
    (Processing /\ Trigger) =>
        /\ imageCounter' = imageCounter
        /\ capturedImages' = capturedImages
        /\ saving' = saving
        /\ clearing' = clearing

\* C27 (as claimed): a start or scan trigger, a capture, a confirm or a retake
\* that arrives while processImages is in flight at imageCounter 3 is rejected:
\* it changes neither imageCounter nor capturedImages and starts no write or
\* delete of the persisted session.
C27_ProcessingRejects == [][C27_TriggerStep]_vars

\* loadSession delivers what it read after a confirm has already been taken.
C30_LoadStep ==
    (LoadResume /\ imageCounter > 0) =>
        /\ imageCounter' = imageCounter
        /\ capturedImages' = capturedImages

\* saveSession requests its put before loadSession has finished, over a session
\* that an earlier run left in the store.
C30_WriteStep ==
    (SaveOpened /\ initPc # "done" /\ kvsSession # Absent) =>
        /\ Len(capturedImages) >= Len(kvsSession[1].capturedImages)
        /\ SubSeq(capturedImages, 1, Len(kvsSession[1].capturedImages))
               = kvsSession[1].capturedImages

\* C30 (as claimed): resume-on-load and user transitions do not race: what a
\* confirm taken before loadSession has finished put in imageCounter and
\* capturedImages is not overwritten by the restored values, and a session
\* waiting in the store to be restored is not overwritten by a put built from
\* the variables as they were before the restore.
C30_NoLoadRace == [][C30_LoadStep]_vars /\ [][C30_WriteStep]_vars

\* C24: the stored credential is never sent to the relay. In every run of
\* processImages over the same three images, whatever credential the settings
\* store holds (none, one value, another value), the one request POSTed to
\* /identify has exactly the fields images, organs, detectDisease and lang with
\* the same values; the credential appears only in the request to Gemini, which
\* carries the stored value.
C24_KeyNotSentToRelay ==
    /\ Len(primaryReqs) = 1
    /\ DOMAIN primaryReqs[1] = {"images", "organs", "detectDisease", "lang"}
    /\ primaryReqs[1].images = ThreeImages
    /\ primaryReqs[1].organs = <<"auto", "auto", "auto">>
    /\ primaryReqs[1].detectDisease = TRUE
    /\ primaryReqs[1].lang = "vi"
    /\ \A i \in DOMAIN secondaryReqs :
           /\ kvsKey # Absent
           /\ secondaryReqs[i] = [apiKey |-> kvsKey[1], images |-> ThreeImages]

\* A run with the second credential stored has called both providers.
C24_Witness ==
    /\ procPc = "done"
    /\ kvsKey = Stored(OtherKey)
    /\ Len(primaryReqs) = 1
    /\ Len(secondaryReqs) = 1
    /\ secondaryReqs[1].apiKey = OtherKey

\* ---------------------------------------------------------------- specification: settings
\* What the user can type in the key modal: nothing, one key, another key.
KeyInputs == {Null, GeminiKey, OtherKey}

\* saveKeyButton 'click' (lines 544-552, 407-414): a non-empty input is put
\* under 'geminiKey'.
SaveKeyClick(val) ==
    /\ Len(keyQueue) < MaxKeyOps
    /\ val # Null
    /\ keyQueue' = Append(keyQueue, Tx("put", Stored(val)))
    /\ UNCHANGED <<memory, ui, picker, saving, clearing, procs, initPc, loaded, store,
                   requests, boot, races, sequential, lastEvent, orch, relay>>

\* deleteKeyButton 'click' (lines 557, 416-423).
DeleteKeyClick ==
    /\ Len(keyQueue) < MaxKeyOps
    /\ keyQueue' = Append(keyQueue, Tx("delete", Absent))
    /\ UNCHANGED <<memory, ui, picker, saving, clearing, procs, initPc, loaded, store,
                   requests, boot, races, sequential, lastEvent, orch, relay>>

\* settingsButton 'click' (lines 554, 492-494): updateKeyStatus reads the key.
SettingsClick ==
    /\ Len(keyQueue) < MaxKeyOps
    /\ keyQueue' = Append(keyQueue, Tx("get", Absent))
    /\ UNCHANGED <<memory, ui, picker, saving, clearing, procs, initPc, loaded, store,
                   requests, boot, races, sequential, lastEvent, orch, relay>>

\* The oldest operation requested on the 'settings' store runs (lines 401, 410,
\* 419): a get changes nothing, a put or a delete changes the entry under
\* 'geminiKey'.
KeyStep ==
    /\ keyQueue # <<>>
    /\ keyQueue' = Tail(keyQueue)
    /\ kvsKey' = CASE Head(keyQueue).op = "put" -> Head(keyQueue).data
                   [] Head(keyQueue).op = "delete" -> Absent
                   [] OTHER -> kvsKey
    /\ UNCHANGED <<memory, ui, picker, saving, clearing, procs, initPc, loaded, txQueue,
                   kvsSession, requests, boot, races, sequential, lastEvent, orch, relay>>

\* The page as loaded the first time, with the session events taken one at a
\* time (no event arrives while a session handler is suspended) and the
\* settings events at any time.
InitSettings ==
    /\ imageCounter = 0
    /\ capturedImages = <<>>
    /\ currentDraft = Null
    /\ isProcessingFile = FALSE
    /\ scanShown = TRUE
    /\ reviewShown = FALSE
    /\ timers = 0
    /\ pickerOpen = FALSE
    /\ pickerQueue = 0
    /\ compressing = Null
    /\ saving = NoSaving
    /\ clearing = 0
    /\ procs = NoProcs
    /\ initPc = "getKey"
    /\ loaded = Absent
    /\ txQueue = <<>>
    /\ kvsSession = Absent
    /\ kvsKey \in {Absent, Stored(GeminiKey)}
    /\ primaryReqs = <<>>
    /\ secondaryReqs = <<>>
    /\ restarts = 0
    /\ races = MaxRaces
    /\ sequential = TRUE
    /\ bootSession = Absent
    /\ bootRaces = MaxRaces
    /\ lastEvent = "load"
    /\ procPc = "idle"
    /\ outcomes = Null
    /\ result = Null
    /\ resultsShown = "hidden"
    /\ keyQueue = <<>>
    /\ relay = NoRequest

NextSettings ==
    \/ Next
    \/ \E val \in KeyInputs : SaveKeyClick(val)
    \/ DeleteKeyClick
    \/ SettingsClick
    \/ KeyStep

SpecSettings == InitSettings /\ [][NextSettings]_vars

\* A step that changes the credential entry is the run of a put or a delete
\* requested on the 'settings' store, and changes nothing of the session.
C23_CredentialStep ==
    kvsKey' # kvsKey =>
        /\ keyQueue # <<>>
        /\ Head(keyQueue).op \in {"put", "delete"}
        /\ keyQueue' = Tail(keyQueue)
        /\ UNCHANGED <<memory, ui, picker, saving, clearing, procs, initPc, loaded, txQueue,
                       kvsSession, requests, boot, races, sequential, lastEvent, orch, relay>>

\* A credential operation (saveKey, deleteKey, getKey: requested or run) leaves
\* the persisted session, the operations pending on it and the session in
\* memory as they are.
C23_CredentialOpStep ==
    (keyQueue' # keyQueue /\ restarts' = restarts) =>
        UNCHANGED <<kvsSession, txQueue, imageCounter, capturedImages, currentDraft, saving,
                    clearing, procs>>

\* C23: the stored credential and the session are independent. The entry
\* under 'geminiKey' is created, changed or deleted only by a put or delete
\* requested through the settings handlers, never by a session operation
\* (confirm and saveSession, start, the end of processing and clearSession,
\* loadSession); and no credential operation changes the persisted session
\* entry or imageCounter and capturedImages.
C23_Independent == [][C23_CredentialStep]_vars /\ [][C23_CredentialOpStep]_vars

\* A session has been captured, processed and cleared while the credential was
\* replaced through the settings.
C23_Witness ==
    /\ imageCounter = 4
    /\ Quiescent
    /\ kvsSession = Absent
    /\ Len(secondaryReqs) = 1
    /\ kvsKey = Stored(OtherKey)
    /\ keyQueue = <<>>

\* ---------------------------------------------------------------- specification: write faults
\* saveSession, await openDB() rejects (lines 428-429, 441-443): the catch logs
\* and saveSession resolves; nothing is written.
SaveOpenFails ==
    /\ UNCHANGED <<orch, keyQueue, relay>>
    /\ UNCHANGED <<races, lastEvent>>
    /\ saving.open > 0
    /\ Len(capturedImages) <= MaxFaultLen
    /\ saving' = [saving EXCEPT !.open = @ - 1, !.done = @ + 1]
    /\ UNCHANGED <<memory, ui, picker, clearing, procs, initPc, loaded, store, requests,
                   boot, sequential>>

\* saveSession, the put or its transaction fails (lines 431-440): the promise
\* is returned without await, so its rejection passes the try block and
\* rejects saveSession; the confirm handler suspended at line 181 ends there
\* with an unhandled rejection.
SaveTxFails ==
    /\ UNCHANGED <<orch, keyQueue, relay>>
    /\ UNCHANGED <<races, lastEvent>>
    /\ txQueue # <<>>
    /\ Head(txQueue).op = "put"
    /\ Len(capturedImages) <= MaxFaultLen
    /\ txQueue' = Tail(txQueue)
    /\ saving' = [saving EXCEPT !.tx = @ - 1]
    /\ UNCHANGED <<memory, ui, picker, clearing, procs, initPc, loaded, kvsSession, kvsKey,
                   requests, boot, sequential>>

NextFault ==
    \/ Next
    \/ SaveOpenFails
    \/ SaveTxFails

\* The session events taken one at a time, the writes of saveSession failing
\* or not.
SpecFault == InitSettings /\ [][NextFault]_vars

\* C21 (as claimed): a failed write during confirm, whether the store fails to
\* open or the write transaction errors, does not crash the confirm
\* transition: once saveSession has settled the handler has cleared the draft
\* and left the review for the next step or for processing.
C21_WriteFailureSoft ==
    (lastEvent = "confirm" /\ SavingCount = 0) => (currentDraft = Null /\ ~reviewShown)

\* ---------------------------------------------------------------- specification: the relay
\* handleIdentify of server.js, for one POST /identify request. The request
\* body arrives in reads of the socket; a read delivers one piece of the body,
\* or several (chunked transfer encoding), each as a 'data' event, and the
\* 'end' event when it completes the message.
page == <<memory, ui, picker, saving, clearing, procs, initPc, loaded, store, requests,
          boot, races, sequential, lastEvent, orch, keyQueue>>

\* if (body.length > 1e7), line 124.
Ceiling == 10000000

\* Lengths of the pieces: two of the smaller make a body of exactly the
\* ceiling, any other pair a body above it.
Sizes == {5000000, 5000001}

Pieces == {<<a>> : a \in Sizes} \cup {<<a, b>> : a \in Sizes, b \in Sizes}

Read(pieces, complete) == [pieces |-> pieces, complete |-> complete]

\* One read or two; the message is complete with the last read, or the client
\* stops sending before that.
Reads ==
    {<<Read(p, c)>> : p \in Pieces, c \in BOOLEAN}
    \cup {<<Read(p, FALSE), Read(q, c)>> : p \in Pieces, q \in Pieces, c \in BOOLEAN}

\* The strings a client can put in payload.images: a base64 data URI, a string
\* of that form whose data part is not base64, a string of another form.
ImageForms == {"data URI", "data URI, garbled data", "plain string"}

\* Mutation: every string is accepted.
decodeDataUriLenient(form) == TRUE

\* decodeDataUri (lines 83-91) returns, and does not throw 'Invalid data URI':
\* the string matches /^data:(.+);base64,(.*)$/i. The data part is decoded by
\* Buffer.from(..., 'base64'), which skips what is not base64 and never throws.
decodeDataUri(form) == form # "plain string"

\* What the body is once complete: JSON or not, the number of entries of
\* payload.images, the form of those entries, payload.detectDisease.
Payload(json, images, uris, detectDisease) ==
    [json |-> json, images |-> images, uris |-> uris, detectDisease |-> detectDisease]

Payloads ==
    {Payload(j, n, u, d) : j \in BOOLEAN, n \in {0, 1, 3}, u \in ImageForms, d \in BOOLEAN}

\* The events one read delivers, in order.
RECURSIVE DataEvents(_)
DataEvents(pieces) ==
    IF pieces = <<>> THEN <<>>
    ELSE <<[event |-> "data", size |-> Head(pieces)]>> \o DataEvents(Tail(pieces))

Events(read) ==
    DataEvents(read.pieces) \o (IF read.complete THEN <<[event |-> "end", size |-> 0]>> ELSE <<>>)

\* handleIdentify has been called (lines 118-121, 130): let body = '', the two
\* listeners are registered.
Request(reads, payload) ==
    [pc |-> "receiving",
     reads |-> reads,            \* reads of the socket still to come
     pending |-> <<>>,           \* events of the current read still to be delivered
     payload |-> payload,
     length |-> 0,               \* body.length
     destroyed |-> FALSE,        \* req.socket.destroy() was called
     heads |-> <<>>,             \* status codes passed to res.writeHead, which sent them
     thrown |-> 0,               \* res.writeHead calls that threw: headers already sent
     calls |-> <<>>,             \* upstream endpoints fetched
     identifyResult |-> "unset",
     diseasesResult |-> "null",
     response |-> Null]          \* the body passed to res.end with status 200

\* res.writeHead(status) on a response whose headers were sent throws
\* ERR_HTTP_HEADERS_SENT.
HeadersSent(r) == r.heads # <<>>

InitRelay ==
    /\ imageCounter = 0
    /\ capturedImages = <<>>
    /\ currentDraft = Null
    /\ isProcessingFile = FALSE
    /\ scanShown = TRUE
    /\ reviewShown = FALSE
    /\ timers = 0
    /\ pickerOpen = FALSE
    /\ pickerQueue = 0
    /\ compressing = Null
    /\ saving = NoSaving
    /\ clearing = 0
    /\ procs = NoProcs
    /\ initPc = "getKey"
    /\ loaded = Absent
    /\ txQueue = <<>>
    /\ kvsSession = Absent
    /\ kvsKey = Absent
    /\ primaryReqs = <<>>
    /\ secondaryReqs = <<>>
    /\ restarts = 0
    /\ races = 0
    /\ sequential = TRUE
    /\ bootSession = Absent
    /\ bootRaces = 0
    /\ lastEvent = "load"
    /\ procPc = "idle"
    /\ outcomes = Null
    /\ result = Null
    /\ resultsShown = "hidden"
    /\ keyQueue = <<>>
    /\ relay \in {Request(r, p) : r \in Reads, p \in Payloads}

\* The socket is read: the parser hands the pieces it finds to the request
\* stream. A destroyed socket is read no more.
RelayRead ==
    /\ relay.pc = "receiving"
    /\ relay.pending = <<>>
    /\ relay.reads # <<>>
    /\ ~relay.destroyed
    /\ relay' = [relay EXCEPT !.pending = Events(Head(relay.reads)), !.reads = Tail(@)]
    /\ UNCHANGED page

\* req.on('data') (lines 121-129). The listener keeps no record of having
\* answered: every piece that takes or finds the body above the ceiling calls
\* res.writeHead(413) again, which throws out of the listener once the headers
\* are sent (an uncaught exception).
RelayData ==
    /\ relay.pc = "receiving"
    /\ relay.pending # <<>>
    /\ Head(relay.pending).event = "data"
    /\ LET length == relay.length + Head(relay.pending).size IN
         IF length > Ceiling
         THEN IF HeadersSent(relay)
              THEN relay' = [relay EXCEPT !.length = length, !.pending = <<>>,
                                          !.thrown = @ + 1, !.pc = "crashed"]
              ELSE relay' = [relay EXCEPT !.length = length, !.pending = Tail(@),
                                          !.heads = Append(@, 413), !.destroyed = TRUE]
         ELSE relay' = [relay EXCEPT !.length = length, !.pending = Tail(@)]
    /\ UNCHANGED page

\* req.on('end') up to its first await (lines 130-152): the body is parsed and
\* the form built, and the species endpoint is fetched; a body that is not
\* JSON, has no images, or an image that is not a data URI throws into the
\* catch (183-186), which answers 400. The listener does not look at whether
\* the request was already answered.
RelayEnd ==
    /\ relay.pc = "receiving"
    /\ relay.pending # <<>>
    /\ Head(relay.pending).event = "end"
    /\ IF relay.payload.json /\ relay.payload.images > 0 /\ decodeDataUri(relay.payload.uris)
       THEN relay' = [relay EXCEPT !.pending = Tail(@), !.pc = "identify",
                                   !.calls = Append(@, "identify")]
       ELSE IF HeadersSent(relay)
            THEN relay' = [relay EXCEPT !.pending = Tail(@), !.pc = "rejected",
                                        !.thrown = @ + 1]
            ELSE relay' = [relay EXCEPT !.pending = Tail(@), !.pc = "done",
                                        !.heads = Append(@, 400)]
    /\ UNCHANGED page

\* res.writeHead(200) and res.end (lines 181-182); when the headers were sent
\* already it throws into the catch, whose res.writeHead(400) throws again and
\* rejects the listener.
Respond(r) ==
    IF HeadersSent(r)
    THEN [r EXCEPT !.pc = "rejected", !.thrown = @ + 2]
    ELSE [r EXCEPT !.pc = "done", !.heads = Append(@, 200),
                   !.response = Stored([identify |-> r.identifyResult,
                                         diseases |-> r.diseasesResult])]

\* Mutation: a failed species call ends the request with the error alone.
RelayIdentifySettlesFatal(ok) ==
    /\ relay.pc = "identify"
    /\ LET r == [relay EXCEPT !.identifyResult = IF ok THEN "identify response"
                                                 ELSE "identify error"] IN
         IF relay.payload.detectDisease /\ ok
         THEN relay' = [r EXCEPT !.pc = "diseases", !.calls = Append(@, "diseases")]
         ELSE relay' = Respond(r)
    /\ UNCHANGED page

\* The species call settled (lines 150-179): its JSON body, or the error value
\* when the fetch or the parse failed; then the diseases endpoint is fetched if
\* payload.detectDisease, else the response is written.
RelayIdentifySettles(ok) ==
    /\ relay.pc = "identify"
    /\ LET r == [relay EXCEPT !.identifyResult = IF ok THEN "identify response"
                                                 ELSE "identify error"] IN
         IF relay.payload.detectDisease
         THEN relay' = [r EXCEPT !.pc = "diseases", !.calls = Append(@, "diseases")]
         ELSE relay' = Respond(r)
    /\ UNCHANGED page

\* The diseases call settled (lines 170-182), and the response is written.
RelayDiseasesSettles(ok) ==
    /\ relay.pc = "diseases"
    /\ relay' = Respond([relay EXCEPT !.diseasesResult = IF ok THEN "diseases response"
                                                         ELSE "diseases error"])
    /\ UNCHANGED page

NextRelay ==
    \/ RelayRead
    \/ RelayData
    \/ RelayEnd
    \/ \E ok \in BOOLEAN : RelayIdentifySettles(ok)
    \/ \E ok \in BOOLEAN : RelayDiseasesSettles(ok)

SpecRelay == InitRelay /\ [][NextRelay]_vars

\* C25 (as claimed): for every request whose accumulated body exceeds the
\* ceiling the relay answers 413 exactly once, answers nothing else, and
\* fetches neither upstream endpoint.
C25_OversizedRejectedOnce ==
    relay.length > Ceiling =>
        /\ relay.heads = <<413>>
        /\ relay.calls = <<>>

\* The request is well formed and within the ceiling, and its message is
\* complete: JSON with at least one image, each a data URI.
WellFormed ==
    /\ relay.payload.json
    /\ relay.payload.images > 0
    /\ relay.payload.uris = "data URI"
    /\ relay.length <= Ceiling

\* C26: for every well-formed request with at least one image the relay
\* fetches the species endpoint, fetches the diseases endpoint after it if and
\* only if detectDisease is set, and answers 200, once, with identify the
\* species call's response or its error value and diseases the diseases call's
\* response or error value, or null when it was not requested; a failed call
\* changes its own field only and the other call is still made.
C26_RelayAnswers ==
    (WellFormed /\ relay.pc \in {"identify", "diseases", "done", "rejected", "crashed"}) =>
        /\ relay.pc \notin {"rejected", "crashed"}
        /\ relay.thrown = 0
        /\ relay.pc = "identify" => (relay.calls = <<"identify">> /\ relay.heads = <<>>)
        /\ relay.pc = "diseases" =>
              /\ relay.payload.detectDisease
              /\ relay.calls = <<"identify", "diseases">>
              /\ relay.heads = <<>>
        /\ relay.pc = "done" =>
              /\ relay.heads = <<200>>
              /\ relay.calls = (IF relay.payload.detectDisease
                                THEN <<"identify", "diseases">> ELSE <<"identify">>)
              /\ relay.response # Null
              /\ relay.response[1].identify \in {"identify response", "identify error"}
              /\ relay.response[1].diseases \in
                     (IF relay.payload.detectDisease
                      THEN {"diseases response", "diseases error"} ELSE {"null"})
              /\ relay.response[1].identify = relay.identifyResult
              /\ relay.response[1].diseases = relay.diseasesResult

\* The species call failed, the diseases call was still made and answered, and
\* the response carries the error and the diseases.
C26_Witness ==
    /\ WellFormed
    /\ relay.pc = "done"
    /\ relay.length = Ceiling
    /\ relay.heads = <<200>>
    /\ relay.response = Stored([identify |-> "identify error", diseases |-> "diseases response"])

\* s is a prefix of t, or equal to it.
IsPrefix(s, t) == Len(s) <= Len(t) /\ SubSeq(t, 1, Len(s)) = s

\* C31 (as claimed): in every reachable state where a session entry is
\* persisted and the page has finished loading, the stored imageCounter is in
\* 1..3, the stored list has exactly that many images, and it is a prefix of, or
\* equal to, capturedImages in memory; neither the sentinel 4 nor 0 is persisted.
C31_PersistedWellFormed ==
    (kvsSession # Absent /\ initPc = "done") =>
        /\ kvsSession[1].imageCounter \in 1..3
        /\ Len(kvsSession[1].capturedImages) = kvsSession[1].imageCounter
        /\ IsPrefix(kvsSession[1].capturedImages, capturedImages)

\* A step of the running session: any step but the reset of 'start new' and the
\* reload of the page, which constructs the variables anew.
C32_SessionStep ==
    ~(StartResume \/ Restart) =>
        /\ imageCounter' >= imageCounter
        /\ IsPrefix(capturedImages, capturedImages')
        /\ (capturedImages' # capturedImages /\ initPc' = initPc) =>
               capturedImages' = Append(capturedImages, currentDraft)

\* C32 (as claimed): within one session, between two start actions, imageCounter never
\* decreases and capturedImages only grows, by the confirmed draft appended at
\* its end or by the restore of the stored list: the images already confirmed
\* are not removed, replaced or reordered by capture, retake, confirm, restore or
\* processing.
C32_MonotoneSession == [][C32_SessionStep]_vars

\* The request cannot be used: its body is not JSON, it carries no images, or
\* an image is a string that is not of the data URI form.
Invalid ==
    \/ ~relay.payload.json
    \/ relay.payload.images = 0
    \/ relay.payload.uris = "plain string"

\* C33: a request, within the ceiling, that carries no images, carries a string
\* that is not a base64 data URI, or has a body that is not valid JSON is
\* answered 400, once, when its 'end' event has been handled, and neither
\* upstream endpoint is fetched for it, before or after.
C33_InvalidRejected ==
    (relay.pc # "idle" /\ Invalid) =>
        /\ relay.calls = <<>>
        /\ relay.response = Null
        /\ (relay.pc # "receiving" /\ relay.length <= Ceiling) =>
               (relay.pc = "done" /\ relay.heads = <<400>> /\ relay.thrown = 0)

\* A JSON body of exactly the ceiling whose three images are plain strings has
\* been answered 400.
C33_Witness ==
    /\ relay.pc = "done"
    /\ relay.payload.json
    /\ relay.payload.images = 3
    /\ relay.payload.uris = "plain string"
    /\ relay.length = Ceiling
    /\ relay.heads = <<400>>
    /\ relay.calls = <<>>

====
